---- MODULE Spec2Model ----
(***************************************************************************)
(* A model of gmc_export.py: main, Team.get_custom_fields, the generator   *)
(* Team.get_all_jobs and export_to_csv, with the remote Coordinate API as   *)
(* the environment.  A JSON object (a Python dict) is a record that has    *)
(* exactly the keys that are present; the empty dict and the empty list    *)
(* are both <<>>.  Python's None in a CSV cell is the reserved string None *)
(* below.  Custom-field IDs are integers, timestamps are the digit         *)
(* sequences of the decimal strings the API sends.                         *)
(***************************************************************************)
EXTENDS Integers, Sequences, FiniteSets, TLC

VARIABLES
    pc,                 \* position of main / export_to_csv / the generator
    sinkOpen,           \* flags.out_file is open
    stderr,             \* what was written to sys.stderr, in order
    error,              \* "" or the exception that propagated out of main
    schemaItems,        \* the 'items' the customFieldDef.list response carried
    custom_fields,      \* export_to_csv: dict ID -> name
    custom_field_ids,   \* export_to_csv: sorted IDs
    out,                \* the lists handed to writer.writerow, in order
    count,              \* export_to_csv: count
    returned,           \* <<>> or <<value returned by export_to_csv>>
    request,            \* get_all_jobs: page number of `request`, 0 for None
    outstanding,        \* HTTP requests issued and not yet answered
    requests,           \* number of jobs.list / list_next requests executed
    served,             \* the responses the job-listing API has served
    response,           \* get_all_jobs: the page it holds
    idx,                \* get_all_jobs: position in response['items']
    job,                \* export_to_csv: the job being flattened
    yielded             \* the jobs get_all_jobs has yielded, in order

vars == <<pc, sinkOpen, stderr, error, schemaItems, custom_fields,
          custom_field_ids, out, count, returned, request, outstanding,
          requests, served, response, idx, job, yielded>>

(***************************************************************************)
(* Bounds of the model.                                                    *)
(***************************************************************************)
MaxPages == 3
MaxJobs == 3

(***************************************************************************)
(* Python dict access.                                                     *)
(***************************************************************************)
None == "<None>"

Has(d, k) == k \in DOMAIN d

Get(d, k, default) == IF Has(d, k) THEN d[k] ELSE default

(***************************************************************************)
(* Team.get_custom_fields and the column ordering.                         *)
(***************************************************************************)
\* {int(item['id']): item['name'] for item in items}: a later item wins.
GetCustomFields(items) ==
    [i \in {items[k].id : k \in 1..Len(items)} |->
        LET last == CHOOSE k \in 1..Len(items) :
                        /\ items[k].id = i
                        /\ \A m \in (k+1)..Len(items) : items[m].id # i
        IN  items[last].name]

RECURSIVE Sorted(_)
Sorted(S) ==
    IF S = {} THEN <<>>
    ELSE LET m == CHOOSE x \in S : \A y \in S : x <= y
         IN  <<m>> \o Sorted(S \ {m})

\* zip(*sorted(custom_fields.items())) unpacked into two names raises
\* ValueError when the dict is empty.
UnpackRaises(fields) == DOMAIN fields = {}

SortedIds(fields) == Sorted(DOMAIN fields)

SortedNames(fields) ==
    [k \in 1..Len(SortedIds(fields)) |-> fields[SortedIds(fields)[k]]]

FixedColumns ==
    <<"Job ID", "Last update", "Title", "Assignee", "Progress", "Address",
      "Lat", "Lon", "Contact name", "Contact phone", "Notes">>

HeaderRow(fields) == FixedColumns \o SortedNames(fields)

(***************************************************************************)
(* Flattening one job into a row.                                          *)
(***************************************************************************)
RECURSIVE ParseInt(_)
ParseInt(digits) ==
    IF digits = <<>> THEN 0
    ELSE 10 * ParseInt(SubSeq(digits, 1, Len(digits) - 1)) + digits[Len(digits)]

\* int(c.get('timestamp') or 0)
ChangeTime(c) == IF Has(c, "timestamp") THEN ParseInt(c.timestamp) ELSE 0

\* max(... for c in job.get('jobChange') or [{}])
LastChange(j) ==
    LET changes == IF Has(j, "jobChange") /\ Len(j.jobChange) > 0
                   THEN j.jobChange ELSE << <<>> >>
        times == {ChangeTime(changes[k]) : k \in 1..Len(changes)}
    IN  CHOOSE t \in times : \A u \in times : u <= t

Pad2(n) == IF n < 10 THEN "0" \o ToString(n) ELSE ToString(n)

\* datetime.utcfromtimestamp(secs).strftime('%Y-%m-%d %H:%M:%S UTC')
FormatUTC(secs) ==
    LET days == secs \div 86400
        rem == secs % 86400
        z == days + 719468
        era == z \div 146097
        doe == z - era * 146097
        yoe == (doe - doe \div 1460 + doe \div 36524 - doe \div 146096) \div 365
        doy == doe - (365 * yoe + yoe \div 4 - yoe \div 100)
        mp == (5 * doy + 2) \div 153
        d == doy - (153 * mp + 2) \div 5 + 1
        m == IF mp < 10 THEN mp + 3 ELSE mp - 9
        y == yoe + era * 400 + (IF m <= 2 THEN 1 ELSE 0)
    IN  ToString(y) \o "-" \o Pad2(m) \o "-" \o Pad2(d) \o " "
        \o Pad2(rem \div 3600) \o ":" \o Pad2((rem % 3600) \div 60) \o ":"
        \o Pad2(rem % 60) \o " UTC"

\* last_change and dt.strftime(...) or ''
Timestamp(j) ==
    IF LastChange(j) = 0 THEN "" ELSE FormatUTC(LastChange(j) \div 1000)

RECURSIVE Join(_)
Join(strs) ==
    IF Len(strs) = 0 THEN ""
    ELSE IF Len(strs) = 1 THEN strs[1]
    ELSE strs[1] \o " / " \o Join(Tail(strs))

\* (state.get('customFields') or {}).get('customField') or {}
FieldsOf(state) ==
    IF Has(state, "customFields") /\ Has(state.customFields, "customField")
    THEN state.customFields.customField ELSE <<>>

\* int(field.get('customFieldId') or 0)
FieldId(field) == Get(field, "customFieldId", 0)

\* {FieldId(field): field.get('value', '') for field in fields}
CustomOf(fields) ==
    [i \in {FieldId(fields[k]) : k \in 1..Len(fields)} |->
        LET last == CHOOSE k \in 1..Len(fields) :
                        /\ FieldId(fields[k]) = i
                        /\ \A m \in (k+1)..Len(fields) : FieldId(fields[m]) # i
        IN  Get(fields[last], "value", "")]

\* [custom.get(id, '') for id in custom_field_ids]
CustomCells(custom, ids) == [k \in 1..Len(ids) |-> Get(custom, ids[k], "")]

\* The exception the loop body raises for this job, "" when it raises none.
FlattenError(j) ==
    IF ~Has(j, "state") THEN "AttributeError"               \* None.get
    ELSE IF ~Has(j, "id") THEN "KeyError"                   \* job['id']
    ELSE IF ~Has(j.state, "location") THEN "AttributeError" \* None.get
    ELSE IF ~Has(j.state, "note") THEN "TypeError"          \* join(None)
    ELSE ""

Row(j, ids) ==
    LET state == j.state
        location == state.location
    IN  << j.id,
           Timestamp(j),
           Get(state, "title", ""),
           Get(state, "assignee", ""),
           Get(state, "progress", ""),
           Join(Get(location, "addressLine", <<>>)),
           Get(location, "lat", None),
           Get(location, "lng", None),
           Get(state, "customerName", None),
           Get(state, "customerPhoneNumber", None),
           Join(state.note) >>
        \o CustomCells(CustomOf(FieldsOf(state)), ids)

(***************************************************************************)
(* The remote service: the schemas and the jobs it may hold.               *)
(***************************************************************************)
DefPool == { [id |-> 7, name |-> "Priority"], [id |-> 0, name |-> "Area"] }

\* IDs are unique within a team; the delivery order is arbitrary.
Schemas ==
    {<<>>} \cup {<<d>> : d \in DefPool}
           \cup {<<d, e>> : <<d, e>> \in {p \in DefPool \X DefPool : p[1].id # p[2].id}}

JobFull ==
    [id |-> "J1",
     state |-> [title |-> "Fix leak", assignee |-> "a@x.com",
                progress |-> "COMPLETED",
                location |-> [addressLine |-> <<"1 Main St", "Apt 2">>,
                              lat |-> "40.1", lng |-> "-73.9"],
                customerName |-> "Bob", customerPhoneNumber |-> "555-1234",
                note |-> <<"urgent", "done">>,
                customFields |->
                    [customField |-> << [customFieldId |-> 7, value |-> "High"] >>]],
     jobChange |-> << [timestamp |-> <<1, 0, 0, 0>>],
                      [timestamp |-> <<5, 0, 0, 0>>] >>]

\* Same id as JobFull; no jobChange, title, assignee, progress, contact,
\* addressLine, lat or lng; a value without customFieldId, a value for an
\* ID that no schema defines.
JobSparse ==
    [id |-> "J1",
     state |-> [location |-> <<>>,
                note |-> <<>>,
                customFields |->
                    [customField |-> << [value |-> "x"],
                                        [customFieldId |-> 9, value |-> "y"] >>]]]

\* No state.note.
JobNoNote ==
    [id |-> "J2",
     state |-> [title |-> "Check pump",
                location |-> [addressLine |-> <<"2 High St">>]],
     jobChange |-> << [timestamp |-> <<9, 0, 0, 6, 1, 0, 0, 0>>] >>]

\* No state.location.
JobNoLocation ==
    [id |-> "J3",
     state |-> [title |-> "Survey", note |-> <<"call first">>]]

JobPool == {JobFull, JobSparse, JobNoNote, JobNoLocation}

RECURSIVE JobSeqs(_)
JobSeqs(n) ==
    IF n = 0 THEN {<<>>}
    ELSE JobSeqs(n - 1) \cup
         {Append(s, j) : s \in {t \in JobSeqs(n - 1) : Len(t) = n - 1}, j \in JobPool}

\* The responses the API may give to the request for page k when the
\* earlier pages carried `sent` jobs.  The token of page k names page k+1.
Servable(k, sent) ==
    LET withItems == {[items |-> s] : s \in JobSeqs(MaxJobs - sent)}
        tokened == {[items |-> p.items, nextPageToken |-> k + 1] : p \in withItems}
    IN  {<<>>, [nextPageToken |-> k + 1]}
        \cup withItems
        \cup (IF k < MaxPages THEN tokened ELSE {})

(***************************************************************************)
(* Team.get_all_jobs.                                                      *)
(***************************************************************************)
\* The jobs of a sequence of responses, in order; a response without
\* 'items' carries none.
RECURSIVE AllItems(_)
AllItems(pages) ==
    IF pages = <<>> THEN <<>>
    ELSE AllItems(SubSeq(pages, 1, Len(pages) - 1))
         \o Get(pages[Len(pages)], "items", <<>>)

BreaksOnEmpty(resp) == ~Has(resp, "items") \/ Len(resp.items) = 0

\* if 'items' not in response: break
Breaks(resp) == ~Has(resp, "items")

PageItemsReversed(resp) ==
    [k \in 1..Len(resp.items) |-> resp.items[Len(resp.items) + 1 - k]]

\* for item in response['items']
PageItems(resp) == resp.items

\* jobs.list_next(request, response): None without a nextPageToken
ListNextOf(req, resp) ==
    IF Has(resp, "nextPageToken") THEN resp.nextPageToken ELSE 0

PageConsumedEarly == idx >= Len(PageItems(response))

\* The for loop over the page is exhausted.
PageConsumed == idx > Len(PageItems(response))

Init ==
    /\ pc = "main"
    /\ sinkOpen = FALSE
    /\ stderr = <<>>
    /\ error = ""
    /\ schemaItems = <<>>
    /\ custom_fields = <<>>
    /\ custom_field_ids = <<>>
    /\ out = <<>>
    /\ count = 0
    /\ returned = <<>>
    /\ request = 0
    /\ outstanding = 0
    /\ requests = 0
    /\ served = <<>>
    /\ response = <<>>
    /\ idx = 0
    /\ job = <<>>
    /\ yielded = <<>>

(***************************************************************************)
(* main, up to the call of export_to_csv.                                  *)
(***************************************************************************)
\* An exception leaves every frame: nothing below main catches it.
Raise(e) ==
    /\ pc' = "failed"
    /\ error' = e

\* argparse.FileType('w') opens the sink; then 'Working...'.
ParseArgs ==
    /\ pc = "main"
    /\ sinkOpen' = TRUE
    /\ stderr' = Append(stderr, "Working...")
    /\ pc' = "team"
    /\ UNCHANGED <<error, schemaItems, custom_fields, custom_field_ids, out,
                   count, returned, request, outstanding, requests, served,
                   response, idx, job, yielded>>

\* Team(flags, flags.team_id): get_service and authorize succeed or raise.
MakeTeam ==
    /\ pc = "team"
    /\ \/ pc' = "export" /\ error' = error
       \/ Raise("AuthError")
    /\ UNCHANGED <<sinkOpen, stderr, schemaItems, custom_fields,
                   custom_field_ids, out, count, returned, request,
                   outstanding, requests, served, response, idx, job, yielded>>

(***************************************************************************)
(* export_to_csv: the schema and the header row.                           *)
(***************************************************************************)
\* The first progress dot, then customFieldDef().list(...).execute() is sent.
FetchSchema ==
    /\ pc = "export"
    /\ stderr' = Append(stderr, ".")
    /\ outstanding' = outstanding + 1
    /\ pc' = "await_schema"
    /\ UNCHANGED <<sinkOpen, error, schemaItems, custom_fields,
                   custom_field_ids, out, count, returned, request, requests,
                   served, response, idx, job, yielded>>

SchemaResponse ==
    /\ pc = "await_schema"
    /\ \E items \in Schemas :
        /\ schemaItems' = items
        /\ custom_fields' = GetCustomFields(items)
    /\ outstanding' = outstanding - 1
    /\ pc' = "header"
    /\ UNCHANGED <<sinkOpen, stderr, error, custom_field_ids, out, count,
                   returned, request, requests, served, response, idx, job,
                   yielded>>

SchemaFail ==
    /\ pc = "await_schema"
    /\ outstanding' = outstanding - 1
    /\ Raise("HttpError")
    /\ UNCHANGED <<sinkOpen, stderr, schemaItems, custom_fields,
                   custom_field_ids, out, count, returned, request, requests,
                   served, response, idx, job, yielded>>

\* Lines 134-156: the column ordering, the header row, the second dot,
\* count = 0 and the generator object, whose first request is jobs.list.
WriteHeader ==
    /\ pc = "header"
    /\ IF UnpackRaises(custom_fields)
       THEN /\ Raise("ValueError")
            /\ UNCHANGED <<custom_field_ids, out, stderr, count, request>>
       ELSE /\ custom_field_ids' = SortedIds(custom_fields)
            /\ out' = Append(out, HeaderRow(custom_fields))
            /\ stderr' = Append(stderr, ".")
            /\ count' = 0
            /\ request' = 1
            /\ pc' = "loop"
            /\ error' = error
    /\ UNCHANGED <<sinkOpen, schemaItems, custom_fields, returned,
                   outstanding, requests, served, response, idx, job, yielded>>

(***************************************************************************)
(* Team.get_all_jobs, driven by the for loop of export_to_csv.             *)
(***************************************************************************)
\* while request: response = request.execute() is sent.
IssuePage ==
    /\ pc = "loop"
    /\ request # 0
    /\ outstanding' = outstanding + 1
    /\ requests' = requests + 1
    /\ pc' = "await_page"
    /\ UNCHANGED <<sinkOpen, stderr, error, schemaItems, custom_fields,
                   custom_field_ids, out, count, returned, request, served,
                   response, idx, job, yielded>>

\* The page has 'items': the for loop starts on it.
Deliver(resp) ==
    /\ response' = resp
    /\ idx' = 1
    /\ pc' = "items"
    /\ UNCHANGED <<error, request>>

\* The generator finishes: the for loop of export_to_csv ends.
EndWalk(resp) ==
    /\ response' = resp
    /\ pc' = "return"
    /\ UNCHANGED <<error, idx, request>>

ExecuteNoCheck(resp) ==
    IF ~Has(resp, "items")
    THEN /\ Raise("KeyError")
         /\ UNCHANGED <<response, idx, request>>
    ELSE Deliver(resp)

\* Lines 122-125: the response arrives; without 'items' the loop breaks.
Execute(resp) ==
    IF Breaks(resp) THEN EndWalk(resp) ELSE Deliver(resp)

PageResponse ==
    /\ pc = "await_page"
    /\ \E resp \in Servable(request, Len(AllItems(served))) :
        /\ served' = Append(served, resp)
        /\ Execute(resp)
    /\ outstanding' = outstanding - 1
    /\ UNCHANGED <<sinkOpen, stderr, schemaItems, custom_fields,
                   custom_field_ids, out, count, returned, requests, job,
                   yielded>>

PageFailSwallowed ==
    /\ pc = "await_page"
    /\ outstanding' = outstanding - 1
    /\ pc' = "return"
    /\ UNCHANGED <<sinkOpen, stderr, error, schemaItems, custom_fields,
                   custom_field_ids, out, count, returned, request, requests,
                   served, response, idx, job, yielded>>

\* request.execute() raises: a transport or auth error.
PageFail ==
    /\ pc = "await_page"
    /\ outstanding' = outstanding - 1
    /\ Raise("HttpError")
    /\ UNCHANGED <<sinkOpen, stderr, schemaItems, custom_fields,
                   custom_field_ids, out, count, returned, request, requests,
                   served, response, idx, job, yielded>>

\* yield item: the job reaches the loop body of export_to_csv.
Yield ==
    /\ pc = "items"
    /\ ~PageConsumed
    /\ job' = PageItems(response)[idx]
    /\ yielded' = Append(yielded, PageItems(response)[idx])
    /\ pc' = "row"
    /\ UNCHANGED <<sinkOpen, stderr, error, schemaItems, custom_fields,
                   custom_field_ids, out, count, returned, request,
                   outstanding, requests, served, response, idx>>

\* The progress dot of every tenth job.
Tick(c) == IF c % 10 = 0 THEN Append(stderr, ".") ELSE stderr

WriteRowDedup ==
    /\ pc = "row"
    /\ IF FlattenError(job) # ""
       THEN /\ Raise(FlattenError(job))
            /\ UNCHANGED <<out, count, stderr, idx>>
       ELSE /\ IF \E k \in 2..Len(out) : out[k][1] = job.id
               THEN UNCHANGED <<out, count, stderr>>
               ELSE /\ out' = Append(out, Row(job, custom_field_ids))
                    /\ count' = count + 1
                    /\ stderr' = Tick(count + 1)
            /\ idx' = idx + 1
            /\ pc' = "items"
            /\ error' = error
    /\ UNCHANGED <<sinkOpen, schemaItems, custom_fields, custom_field_ids,
                   returned, request, outstanding, requests, served, response,
                   job, yielded>>

\* Lines 157-184: flatten the job, write its row, count it; then the
\* generator resumes after its yield.
WriteRow ==
    /\ pc = "row"
    /\ IF FlattenError(job) # ""
       THEN /\ Raise(FlattenError(job))
            /\ UNCHANGED <<out, count, stderr, idx>>
       ELSE /\ out' = Append(out, Row(job, custom_field_ids))
            /\ count' = count + 1
            /\ stderr' = Tick(count + 1)
            /\ idx' = idx + 1
            /\ pc' = "items"
            /\ error' = error
    /\ UNCHANGED <<sinkOpen, schemaItems, custom_fields, custom_field_ids,
                   returned, request, outstanding, requests, served, response,
                   job, yielded>>

\* Line 127 and the while test: the next request, or the end of the walk.
ListNext ==
    /\ pc = "items"
    /\ PageConsumed
    /\ request' = ListNextOf(request, response)
    /\ pc' = IF ListNextOf(request, response) = 0 THEN "return" ELSE "loop"
    /\ UNCHANGED <<sinkOpen, stderr, error, schemaItems, custom_fields,
                   custom_field_ids, out, count, returned, outstanding,
                   requests, served, response, idx, job, yielded>>

(***************************************************************************)
(* The end of export_to_csv and of main.                                   *)
(***************************************************************************)
\* return count
Return ==
    /\ pc = "return"
    /\ returned' = <<count>>
    /\ pc' = "close"
    /\ UNCHANGED <<sinkOpen, stderr, error, schemaItems, custom_fields,
                   custom_field_ids, out, count, request, outstanding,
                   requests, served, response, idx, job, yielded>>

\* flags.out_file.close()
Close ==
    /\ pc = "close"
    /\ sinkOpen' = FALSE
    /\ pc' = "summary"
    /\ UNCHANGED <<stderr, error, schemaItems, custom_fields,
                   custom_field_ids, out, count, returned, request,
                   outstanding, requests, served, response, idx, job, yielded>>

OutName == "out.csv"

\* '\n%d job%s written to %s.'
SummaryLine(n) ==
    "\n" \o ToString(n) \o " job" \o (IF n # 1 THEN "s" ELSE "")
    \o " written to " \o OutName \o "."

Summary ==
    /\ pc = "summary"
    /\ stderr' = Append(stderr, SummaryLine(returned[1]))
    /\ pc' = "done"
    /\ UNCHANGED <<sinkOpen, error, schemaItems, custom_fields,
                   custom_field_ids, out, count, returned, request,
                   outstanding, requests, served, response, idx, job, yielded>>

Next ==
    \/ ParseArgs
    \/ MakeTeam
    \/ FetchSchema
    \/ SchemaResponse
    \/ SchemaFail
    \/ WriteHeader
    \/ IssuePage
    \/ PageResponse
    \/ PageFail
    \/ Yield
    \/ WriteRow
    \/ ListNext
    \/ Return
    \/ Close
    \/ Summary

Spec == Init /\ [][Next]_vars

(***************************************************************************)
(* Properties.                                                             *)
(***************************************************************************)
\* export_to_csv has returned its count to main.
HasReturned == returned # <<>>

\* The generator has finished without an exception.
WalkOver == pc \in {"return", "close", "summary", "done"}

\* A page after which get_all_jobs requests no further page.
Terminal(page) == ~Has(page, "items") \/ ~Has(page, "nextPageToken")

DataRows == SubSeq(out, 2, Len(out))

\* C1: when the job-listing API serves a page that has a continuation
\* cursor but no 'items' key, get_all_jobs stops at that page without an
\* error: no further page is requested, and the jobs yielded are exactly
\* the items of the pages before it, in server order.
ThmC1 ==
    \A k \in 1..Len(served) :
        (~Has(served[k], "items") /\ Has(served[k], "nextPageToken")) =>
            /\ k = Len(served)
            /\ requests = k
            /\ outstanding = 0
            /\ error = ""
            /\ WalkOver
            /\ yielded = AllItems(SubSeq(served, 1, k - 1))

WitC1 ==
    /\ pc = "done"
    /\ Len(served) = 2
    /\ served[2] = [nextPageToken |-> 3]
    /\ yielded = <<JobFull, JobSparse>>

\* C2: when export_to_csv returns, the returned count equals the number of
\* jobs yielded by the complete walk and the number of data rows written,
\* the header excluded; with zero jobs the sink holds only the header row
\* and the count is 0.
ThmC2 ==
    HasReturned =>
        /\ returned[1] = Len(yielded)
        /\ served # <<>>
        /\ Terminal(served[Len(served)])
        /\ yielded = AllItems(served)
        /\ Len(out) = 1 + returned[1]
        /\ (Len(yielded) = 0 =>
                /\ returned[1] = 0
                /\ out = <<HeaderRow(GetCustomFields(schemaItems))>>)

WitC2 ==
    /\ pc = "done"
    /\ returned = <<3>>
    /\ Len(served) = 2
    /\ yielded = <<JobFull, JobSparse, JobFull>>

\* C3: at every point of an export_to_csv run the data rows written are, in
\* order, the rows of the jobs yielded so far (all of them, or all but the
\* job whose row is being built), the i-th row carrying the i-th job's id;
\* the jobs are yielded in server order; nothing is reordered, duplicated
\* or skipped, also when two jobs carry the same id.
ThmC3 ==
    /\ Len(out) = 0 => yielded = <<>>
    /\ Len(DataRows) <= Len(yielded)
    /\ Len(yielded) <= Len(DataRows) + 1
    /\ Len(yielded) = Len(DataRows) + 1 => pc \in {"row", "failed"}
    /\ pc = "failed" /\ error = "HttpError" => Len(yielded) = Len(DataRows)
    /\ \A i \in 1..Len(DataRows) :
        /\ DataRows[i][1] = yielded[i].id
        /\ DataRows[i] = Row(yielded[i], custom_field_ids)
    /\ Len(yielded) <= Len(AllItems(served))
    /\ yielded = SubSeq(AllItems(served), 1, Len(yielded))

WitC3 ==
    /\ pc = "items"
    /\ yielded = <<JobSparse, JobFull>>
    /\ Len(DataRows) = 2
    /\ DataRows[1][1] = "J1"
    /\ DataRows[2][1] = "J1"
    /\ DataRows[1] # DataRows[2]

\* The job's entries that name the custom field `id`.
EntriesFor(j, id) ==
    {k \in 1..Len(FieldsOf(j.state)) :
        /\ Has(FieldsOf(j.state)[k], "customFieldId")
        /\ FieldsOf(j.state)[k].customFieldId = id}

\* C4: every data row has 11 + (number of schema definitions) cells, as
\* many as the header; the k-th trailing cell is the job's value for the
\* k-th smallest schema ID when the job has one, otherwise "".
CexC4 ==
    \A i \in 1..Len(DataRows) :
        LET j == yielded[i]
            ids == Sorted({schemaItems[k].id : k \in 1..Len(schemaItems)})
        IN  /\ Len(DataRows[i]) = 11 + Len(schemaItems)
            /\ Len(DataRows[i]) = Len(out[1])
            /\ \A k \in 1..Len(ids) :
                DataRows[i][11 + k] =
                    IF EntriesFor(j, ids[k]) = {} THEN ""
                    ELSE LET last == CHOOSE e \in EntriesFor(j, ids[k]) :
                                        \A f \in EntriesFor(j, ids[k]) : f <= e
                         IN  Get(FieldsOf(j.state)[last], "value", "")

\* get_custom_fields has returned and export_to_csv is past its header step.
HeaderDue ==
    \/ pc \in {"loop", "await_page", "items", "row", "return", "close",
               "summary", "done"}
    \/ /\ pc = "failed"
       /\ error # "AuthError"
       /\ ~(error = "HttpError" /\ requests = 0)

\* C5: for every schema get_custom_fields returns, zero definitions
\* included, export_to_csv writes a header row: the eleven fixed names,
\* then the custom-field names by ascending ID.
CexC5 ==
    HeaderDue =>
        /\ Len(out) >= 1
        /\ Len(out[1]) = 11 + Len(schemaItems)
        /\ SubSeq(out[1], 1, 11) = FixedColumns
        /\ \A k \in 1..Len(schemaItems) :
            LET rank == Cardinality({m \in 1..Len(schemaItems) :
                                        schemaItems[m].id <= schemaItems[k].id})
            IN  out[1][11 + rank] = schemaItems[k].name

\* C6: a job that lacks nested fields does not abort export_to_csv: unless
\* its row is being built right now, every yielded job has its row.
CexC6 ==
    (pc # "row" /\ \A i \in 1..Len(yielded) :
                        Has(yielded[i], "id") /\ Has(yielded[i], "state"))
        => Len(DataRows) = Len(yielded)

\* C7: the sink is closed on every path out of the run: after a successful
\* export, and after the schema fetch, a page fetch or the flattening of a
\* job raised.
CexC7 == (pc \in {"done", "failed"} /\ error # "AuthError") => ~sinkOpen

\* The step in which the request for a job page ends without a response.
PageRequestFails == pc = "await_page" /\ served' = served

\* C8: when the request for page k fails, the error propagates out of
\* export_to_csv and main: no count is returned, no summary is printed,
\* the request is not retried and no later page is requested, and the sink
\* holds the header and exactly the rows of the jobs of the pages before
\* k; after a failure the run takes no further step.
ThmC8 ==
    [][/\ pc # "failed"
       /\ PageRequestFails =>
            /\ pc' = "failed"
            /\ error' = "HttpError"
            /\ returned' = <<>>
            /\ \A i \in 1..Len(stderr') : stderr'[i] \in {"Working...", "."}
            /\ requests' = Len(served) + 1
            /\ outstanding' = 0
            /\ Len(out') = 1 + Len(AllItems(served))
            /\ out'[1] = HeaderRow(custom_fields)
            /\ \A i \in 1..Len(AllItems(served)) :
                out'[i + 1] = Row(AllItems(served)[i], custom_field_ids)]_vars

WitC8 ==
    /\ pc = "failed"
    /\ error = "HttpError"
    /\ requests = 2
    /\ Len(served) = 1
    /\ Len(out) = 3

\* The jobs of the page that get_all_jobs holds.
HeldJobs == IF served = <<>> THEN 0
            ELSE Len(Get(served[Len(served)], "items", <<>>))

\* C9: requests are strictly sequential and pages are fetched lazily: at
\* most one request is outstanding; the header is written before the first
\* job-page request; the request for the next page is issued only after
\* every job of the pages before has its row; the unwritten jobs are never
\* more than the one page held.
ThmC9 ==
    /\ outstanding \in {0, 1}
    /\ outstanding = 1 <=> pc \in {"await_schema", "await_page"}
    /\ pc \in {"main", "team", "export", "await_schema", "header"} =>
            requests = 0 /\ out = <<>>
    /\ requests >= 1 => Len(out) >= 1 /\ out[1] = HeaderRow(custom_fields)
    /\ requests \in {Len(served), Len(served) + 1}
    /\ pc \in {"loop", "await_page"} => Len(DataRows) = Len(AllItems(served))
    /\ requests >= 1 =>
            Len(AllItems(served)) - Len(DataRows) <= HeldJobs

WitC9 ==
    /\ pc = "await_page"
    /\ outstanding = 1
    /\ requests = 2
    /\ Len(served[1].items) = 2
    /\ Len(out) = 3

\* C10: get_all_jobs stops at the first page that lacks 'items' or lacks a
\* cursor; every page before it has 'items' and a cursor (an empty 'items'
\* list with a cursor does not end the walk); a last page with 'items' has
\* all its items yielded; the yielded sequence is the concatenation of the
\* items of the pages up to the stopping page.
ThmC10 ==
    /\ \A k \in 1..(Len(served) - 1) : ~Terminal(served[k])
    /\ WalkOver =>
            /\ served # <<>>
            /\ Terminal(served[Len(served)])
            /\ requests = Len(served)
            /\ yielded = AllItems(served)
    /\ pc = "loop" =>
            /\ request = Len(served) + 1
            /\ served # <<>> => ~Terminal(served[Len(served)])
            /\ yielded = AllItems(served)
    /\ (pc = "items" /\ idx > Len(response.items)) =>
            /\ response = served[Len(served)]
            /\ yielded = AllItems(served)

WitC10 ==
    /\ pc = "done"
    /\ Len(served) = 3
    /\ served[1] = [items |-> <<>>, nextPageToken |-> 2]
    /\ served[3] = [items |-> <<JobFull>>]
    /\ yielded = <<JobSparse, JobFull>>

====
